---- MODULE Spec2Model ----
(***************************************************************************)
(* FFTradeWizard backend (backend/app): the player pool built once at      *)
(* import time from the ESPN adapter with fallback to DEFAULT_PLAYERS, the *)
(* rest-of-season score, the percentile tiers, the rankings and the trade  *)
(* analyzer.                                                               *)
(*                                                                         *)
(* Numbers.  Python floats are modelled as exact decimals held in          *)
(* integers: points, fppg, usage and sos are in hundredths (18.5 is 1850,  *)
(* usage 0.30 is 30, sos 0.5 is 50), ESPN's percentOwned is in thousandths *)
(* of a percent (45.678 % is 45678) and percentStarted in whole percent.   *)
(* round(x, 2) is rounding of the exact value to the nearest hundredth,    *)
(* an exact tie going to the even neighbour; on a tie the binary float     *)
(* may fall on either side, which none of the properties here depends on.  *)
(***************************************************************************)
EXTENDS Integers, Sequences, FiniteSets, TLC

VARIABLES phase, fetch_kind, espn_players, PLAYER_POOL, request, response

vars == <<phase, fetch_kind, espn_players, PLAYER_POOL, request, response>>

(***************************************************************************)
(* Bounds of the model.                                                    *)
(***************************************************************************)
MaxRaw == 2     \* longest provider payload
MaxIds == 2     \* longest id list of one side of a trade
MaxTotal == 20  \* largest total handed to tier_for_rank directly

(***************************************************************************)
(* Python values.                                                          *)
(***************************************************************************)
NoneStr == "<None>"     \* None in an Optional[str] field

Has(d, key) == key \in DOMAIN d

\* d.get(key) for an int-valued key: a missing key reads as the falsy 0
GetInt(d, key) == IF Has(d, key) THEN d[key] ELSE 0

\* d.get(key) for a str-valued key: a missing key reads as the falsy ""
GetStr(d, key) == IF Has(d, key) THEN d[key] ELSE ""

Max(a, b) == IF a >= b THEN a ELSE b

Abs(a) == IF a < 0 THEN -a ELSE a

\* the integer nearest to whole + num/den (den > 0), an exact tie to the even one
RoundHalfEven(whole, num, den) ==
    LET q == whole + (num \div den)
        r == num % den
    IN  IF 2 * r < den THEN q
        ELSE IF 2 * r > den THEN q + 1
        ELSE IF q % 2 = 0 THEN q ELSE q + 1

\* round(x, 2) of x = num/den hundredths
Round2(num, den) == RoundHalfEven(0, num, den)

\* round(x * g / 10^8, 2) in hundredths, the product held in 32-bit pieces
MulDivRound(x, g) ==
    LET xh == x \div 10000
        xl == x % 10000
        t  == xh * g
        w  == xl * g
    IN  RoundHalfEven(t \div 10000, (t % 10000) * 10000 + w, 100000000)

\* str.upper() on the strings the model uses
Upper(s) ==
    CASE s = "all" -> "ALL"
      [] s = "qb"  -> "QB"
      [] s = "rb"  -> "RB"
      [] s = "wr"  -> "WR"
      [] s = "te"  -> "TE"
      [] s = "k"   -> "K"
      [] OTHER     -> s

(***************************************************************************)
(* Configuration and tables (services.py, models.py).                      *)
(***************************************************************************)
ESPN_SCORING_PERIOD == 1
ESPN_MIN_PERCENT_OWNED == 0
USAGE_WEIGHT == 20      \* 0.20
SOS_WEIGHT == 15        \* 0.15

TEAM_MAP ==
    ( 1 :> "ATL" @@ 2 :> "BUF" @@ 3 :> "CHI" @@ 4 :> "CIN" @@ 5 :> "CLE" @@
      6 :> "DAL" @@ 7 :> "DEN" @@ 8 :> "DET" @@ 9 :> "GB" @@ 10 :> "TEN" @@
      11 :> "IND" @@ 12 :> "KC" @@ 13 :> "LV" @@ 14 :> "LAR" @@
      15 :> "MIAMI" @@ 16 :> "MIN" @@ 17 :> "NE" @@ 18 :> "NO" @@
      19 :> "NYG" @@ 20 :> "NYJ" @@ 21 :> "PHI" @@ 22 :> "ARI" @@
      23 :> "PIT" @@ 24 :> "LAC" @@ 25 :> "SF" @@ 26 :> "SEA" @@
      27 :> "TB" @@ 28 :> "WSH" @@ 29 :> "CAR" @@ 30 :> "JAX" @@
      33 :> "BAL" @@ 34 :> "HOU" )

position_map ==
    ( 1 :> "QB" @@ 2 :> "RB" @@ 3 :> "WR" @@ 4 :> "TE" @@ 5 :> "K" @@
      16 :> "D/ST" )

\* Player(...) with the defaults of schemas.Player for the fields not given
Player(id, name, team, position, fppg, usage, sos, remaining_games) ==
    [ id |-> id, name |-> name, team |-> team, position |-> position,
      fppg |-> fppg, usage |-> usage, sos |-> sos,
      remaining_games |-> remaining_games,
      season_points |-> 0, projected_season |-> 0, week_projection |-> 0,
      matchup |-> NoneStr ]

DEFAULT_PLAYERS ==
    << Player("p1", "Justin Jefferson", "MIN", "WR", 1850, 30, 50, 7),
       Player("p2", "Ja'Marr Chase", "CIN", "WR", 1730, 28, 55, 7),
       Player("p3", "Christian McCaffrey", "SF", "RB", 2170, 40, 45, 7) >>

(***************************************************************************)
(* What the provider may answer.  An element of the payload is a JSON      *)
(* value: shape "dict" with the keys it has, or another shape.             *)
(***************************************************************************)
Owned == [ percentOwned |-> 45678, percentStarted |-> 60 ]

RawMahomes ==
    [ shape |-> "dict", id |-> 1, fullName |-> "Patrick Mahomes",
      defaultPositionId |-> 1, proTeamId |-> 12, ownership |-> Owned,
      stats |-> << [ statSourceId |-> 0, statSplitTypeId |-> 1,
                     scoringPeriodId |-> 0, appliedTotal |-> 10000 ],
                   [ statSourceId |-> 1, statSplitTypeId |-> 1,
                     scoringPeriodId |-> 0, appliedTotal |-> 30000 ],
                   [ statSourceId |-> 1, statSplitTypeId |-> 0,
                     scoringPeriodId |-> 1, appliedTotal |-> 2150 ] >> ]

\* the player's fields under a "player" key, the id beside it
RawBarkley ==
    [ shape |-> "dict", id |-> 2, ownership |-> Owned,
      player |-> [ fullName |-> "Saquon Barkley", defaultPositionId |-> 2,
                   proTeamId |-> 21 ] ]

RawKicker ==
    [ shape |-> "dict", id |-> 3, fullName |-> "Harrison Butker",
      defaultPositionId |-> 5, proTeamId |-> 12, ownership |-> Owned ]

RawDefense ==
    [ shape |-> "dict", id |-> 4, fullName |-> "Eagles D/ST",
      defaultPositionId |-> 16, proTeamId |-> 21, ownership |-> Owned ]

\* no id anywhere and a position code the table does not know
RawNoId ==
    [ shape |-> "dict", fullName |-> "Patrick Mahomes",
      defaultPositionId |-> 99, proTeamId |-> 1,
      ownership |-> [ percentOwned |-> 100000, percentStarted |-> 100 ] ]

\* no defaultPositionId, no percentStarted
RawNoPosition ==
    [ shape |-> "dict", id |-> 6, name |-> "Josh Allen", proTeamId |-> 2,
      ownership |-> [ percentOwned |-> 91234 ] ]

RawNoName ==
    [ shape |-> "dict", id |-> 7, defaultPositionId |-> 3, proTeamId |-> 16,
      ownership |-> Owned ]

RawFreeAgent ==
    [ shape |-> "dict", id |-> 8, fullName |-> "Free Agent",
      defaultPositionId |-> 3, ownership |-> Owned ]

RawUnowned ==
    [ shape |-> "dict", id |-> 9, fullName |-> "Bench Player",
      defaultPositionId |-> 4, proTeamId |-> 16,
      ownership |-> [ percentOwned |-> 0, percentStarted |-> 0 ] ]

\* an element that is not a dict (a string, a number, null)
RawBadShape == [ shape |-> "str" ]

RawRecords ==
    { RawMahomes, RawBarkley, RawKicker, RawDefense, RawNoId, RawNoPosition,
      RawNoName, RawFreeAgent, RawUnowned, RawBadShape }

Payloads == UNION { [1..n -> RawRecords] : n \in 0..MaxRaw }

\* requests.get(...) then resp.json(): an exception (network error, timeout,
\* raise_for_status on a non-2xx answer, invalid JSON), a JSON value that is
\* not a list, or a list
HttpOutcomes ==
    { [ kind |-> "exception", data |-> <<>> ],
      [ kind |-> "nonlist", data |-> <<>> ] }
    \cup { [ kind |-> "list", data |-> d ] : d \in Payloads }

\* what _fetch_team_matchups may return: {} on any failure, or a schedule
MatchupOutcomes == { <<>>, [ KC |-> "vs DAL" ] }

(***************************************************************************)
(* _fetch_espn_players_raw: None (raw FALSE) or the list.                  *)
(***************************************************************************)
fetch_espn_players_raw(http) ==
    IF http.kind = "list"
    THEN [ some |-> TRUE, list |-> http.data ]
    ELSE [ some |-> FALSE, list |-> <<>> ]

(***************************************************************************)
(* The position of _extract_basic_info: position_map.get(id, "FLEX") for   *)
(* an int defaultPositionId, "FLEX" otherwise.                             *)
(***************************************************************************)
\* position_map.get(id) without the default
map_position_no_default(player_info) ==
    IF Has(player_info, "defaultPositionId")
    THEN IF player_info.defaultPositionId \in DOMAIN position_map
         THEN position_map[player_info.defaultPositionId]
         ELSE NoneStr
    ELSE "FLEX"

map_position(player_info) ==
    IF Has(player_info, "defaultPositionId")
    THEN IF player_info.defaultPositionId \in DOMAIN position_map
         THEN position_map[player_info.defaultPositionId]
         ELSE "FLEX"
    ELSE "FLEX"

(***************************************************************************)
(* _extract_basic_info: [raised, some, player].  raised: raw.get on a      *)
(* value that is not a dict raises AttributeError.                         *)
(***************************************************************************)
extract_basic_info(raw) ==
    IF raw.shape # "dict"
    THEN [ raised |-> TRUE, some |-> FALSE, player |-> <<>> ]
    ELSE
    LET player_info == IF Has(raw, "player") THEN raw.player ELSE raw
        full_name == IF GetStr(player_info, "fullName") # ""
                     THEN GetStr(player_info, "fullName")
                     ELSE GetStr(player_info, "name")
        espn_id == IF GetInt(raw, "id") # 0 THEN ToString(GetInt(raw, "id"))
                   ELSE IF GetInt(player_info, "id") # 0
                        THEN ToString(GetInt(player_info, "id"))
                        ELSE full_name
        position == map_position(player_info)
        team == IF Has(player_info, "proTeamId")
                THEN IF player_info.proTeamId \in DOMAIN TEAM_MAP
                     THEN TEAM_MAP[player_info.proTeamId]
                     ELSE "FA"
                ELSE "FA"
        ownership == IF Has(raw, "ownership") THEN raw.ownership ELSE <<>>
        fppg == IF Has(ownership, "percentOwned")
                THEN Round2(ownership.percentOwned, 100)
                ELSE 0
        usage == IF Has(ownership, "percentStarted")
                 THEN ownership.percentStarted
                 ELSE 50
    IN  IF full_name = ""
        THEN [ raised |-> FALSE, some |-> FALSE, player |-> <<>> ]
        ELSE [ raised |-> FALSE, some |-> TRUE,
               player |-> Player(espn_id, full_name, team, position,
                                 fppg, usage, 50, 8) ]

(***************************************************************************)
(* _extract_fantasy_totals                                                 *)
(***************************************************************************)
RECURSIVE fold_stats(_, _, _)
fold_stats(stats, current_week, acc) ==
    IF stats = <<>> THEN acc
    ELSE
    LET s == Head(stats)
        applied_total == GetInt(s, "appliedTotal")
        isSeason == /\ Has(s, "statSourceId") /\ s.statSourceId = 0
                    /\ Has(s, "statSplitTypeId") /\ s.statSplitTypeId = 1
        isProjected == /\ Has(s, "statSourceId") /\ s.statSourceId = 1
                       /\ Has(s, "statSplitTypeId") /\ s.statSplitTypeId = 1
        isWeek == /\ Has(s, "statSourceId") /\ s.statSourceId = 1
                  /\ Has(s, "statSplitTypeId") /\ s.statSplitTypeId = 0
                  /\ Has(s, "scoringPeriodId")
                  /\ s.scoringPeriodId = current_week
    IN  fold_stats(Tail(stats), current_week,
            [ season_points |->
                  IF isSeason THEN Max(acc.season_points, applied_total)
                  ELSE acc.season_points,
              projected_season |->
                  IF isProjected THEN Max(acc.projected_season, applied_total)
                  ELSE acc.projected_season,
              week_projection |->
                  IF isWeek THEN Max(acc.week_projection, applied_total)
                  ELSE acc.week_projection ])

extract_fantasy_totals(raw, current_week) ==
    LET zero == [ season_points |-> 0, projected_season |-> 0,
                  week_projection |-> 0 ]
        t == IF Has(raw, "stats")
             THEN fold_stats(raw.stats, current_week, zero)
             ELSE zero
    IN  [ season_points |-> Round2(t.season_points, 1),
          projected_season |-> Round2(t.projected_season, 1),
          week_projection |-> Round2(t.week_projection, 1) ]

(***************************************************************************)
(* _load_players_from_espn: [raised, players].                             *)
(***************************************************************************)
\* the ownership test of the loop body under a minimum of min_percent_owned
\* (thousandths of a percent): the threshold alone, without "po_val <= 0.0"
excluded_by_ownership_threshold_only(raw, min_percent_owned) ==
    LET ownership == IF Has(raw, "ownership") THEN raw.ownership ELSE <<>>
        po_val == IF Has(ownership, "percentOwned")
                  THEN ownership.percentOwned ELSE 0
    IN  po_val < min_percent_owned

\* the ownership test of the loop body under a minimum of min_percent_owned
\* (thousandths of a percent); percentOwned that is missing reads as 0.0
excluded_by_ownership(raw, min_percent_owned) ==
    LET ownership == IF Has(raw, "ownership") THEN raw.ownership ELSE <<>>
        po_val == IF Has(ownership, "percentOwned")
                  THEN ownership.percentOwned ELSE 0
    IN  po_val <= 0 \/ po_val < min_percent_owned

\* the body of the for loop for one raw record: [raised, keep, player]
load_one(raw, matchups) ==
    LET base == extract_basic_info(raw)
        base_player == base.player
        totals == extract_fantasy_totals(raw, ESPN_SCORING_PERIOD)
    IN  IF base.raised
        THEN [ raised |-> TRUE, keep |-> FALSE, player |-> <<>> ]
        ELSE IF ~base.some
        THEN [ raised |-> FALSE, keep |-> FALSE, player |-> <<>> ]
        ELSE IF base_player.team = "FA"
        THEN [ raised |-> FALSE, keep |-> FALSE, player |-> <<>> ]
        ELSE IF excluded_by_ownership(raw, ESPN_MIN_PERCENT_OWNED)
        THEN [ raised |-> FALSE, keep |-> FALSE, player |-> <<>> ]
        ELSE [ raised |-> FALSE, keep |-> TRUE,
               player |->
                 [ base_player EXCEPT
                     !.season_points = totals.season_points,
                     !.projected_season = totals.projected_season,
                     !.week_projection = totals.week_projection,
                     !.matchup = IF Has(matchups, base_player.team)
                                 THEN matchups[base_player.team]
                                 ELSE NoneStr ] ]

RECURSIVE load_loop(_, _, _)
load_loop(raw_list, matchups, players) ==
    IF raw_list = <<>> THEN [ raised |-> FALSE, players |-> players ]
    ELSE
    LET one == load_one(Head(raw_list), matchups)
    IN  IF one.raised THEN [ raised |-> TRUE, players |-> <<>> ]
        ELSE load_loop(Tail(raw_list), matchups,
                       IF one.keep THEN Append(players, one.player)
                       ELSE players)

load_players_from_espn(http, matchups) ==
    LET raw_list == fetch_espn_players_raw(http)
    IN  IF ~raw_list.some \/ raw_list.list = <<>>
        THEN [ raised |-> FALSE, players |-> <<>> ]
        ELSE load_loop(raw_list.list, matchups, <<>>)

(***************************************************************************)
(* _init_player_pool: the value PLAYER_POOL is bound to, given what        *)
(* _load_players_from_espn returned.                                       *)
(***************************************************************************)
\* the fallback forgotten
init_player_pool_no_fallback(loaded) == loaded

init_player_pool(loaded) ==
    IF loaded # <<>> THEN loaded ELSE DEFAULT_PLAYERS

(***************************************************************************)
(* get_players_by_position                                                 *)
(***************************************************************************)
get_players_by_position(pool, position) ==
    IF position = "" \/ Upper(position) = "ALL"
    THEN pool
    ELSE SelectSeq(pool, LAMBDA p : Upper(p.position) = Upper(position))

(***************************************************************************)
(* compute_matchup_factor, in units of 1/10000.                            *)
(***************************************************************************)
compute_matchup_factor(player) ==
    LET sos_adjust == 50 - player.sos
    IN  10000 + SOS_WEIGHT * sos_adjust

(***************************************************************************)
(* calculate_ros_score, in hundredths.  usage_factor and matchup_factor    *)
(* are in units of 1/10000.                                                *)
(***************************************************************************)
\* the base taken as projection minus points scored, without the floor
calculate_ros_score_rest_only(player) ==
    LET base_ros ==
            IF player.projected_season > 0 /\ player.season_points > 0
            THEN player.projected_season - player.season_points
            ELSE IF player.projected_season > 0
            THEN player.projected_season
            ELSE player.fppg * Max(player.remaining_games, 0)
        usage_factor == 10000 + USAGE_WEIGHT * (player.usage - 50)
        matchup_factor == compute_matchup_factor(player)
    IN  MulDivRound(base_ros * usage_factor, matchup_factor)

calculate_ros_score(player) ==
    LET base_ros ==
            IF player.projected_season > 0 /\ player.season_points > 0
            THEN player.season_points
                 + Max(player.projected_season - player.season_points, 0)
            ELSE IF player.projected_season > 0
            THEN player.projected_season
            ELSE player.fppg * Max(player.remaining_games, 0)
        usage_factor == 10000 + USAGE_WEIGHT * (player.usage - 50)
        matchup_factor == compute_matchup_factor(player)
    IN  MulDivRound(base_ros * usage_factor, matchup_factor)

(***************************************************************************)
(* tier_for_rank: percentile = (index + 1) / total against 0.10, 0.30,     *)
(* 0.60 and 0.85, compared exactly.                                        *)
(***************************************************************************)
\* the labels A and B exchanged
tier_for_rank_swapped(index, total) ==
    IF total <= 0 THEN "D"
    ELSE IF 100 * (index + 1) <= 10 * total THEN "S"
    ELSE IF 100 * (index + 1) <= 30 * total THEN "B"
    ELSE IF 100 * (index + 1) <= 60 * total THEN "A"
    ELSE IF 100 * (index + 1) <= 85 * total THEN "C"
    ELSE "D"

tier_for_rank(index, total) ==
    IF total <= 0 THEN "D"
    ELSE IF 100 * (index + 1) <= 10 * total THEN "S"
    ELSE IF 100 * (index + 1) <= 30 * total THEN "A"
    ELSE IF 100 * (index + 1) <= 60 * total THEN "B"
    ELSE IF 100 * (index + 1) <= 85 * total THEN "C"
    ELSE "D"

(***************************************************************************)
(* list.sort(key=lambda r: r.ros_score, reverse=True): stable, results of  *)
(* equal score keep their order.                                           *)
(***************************************************************************)
RECURSIVE insert_desc(_, _)
insert_desc(sorted, r) ==
    IF sorted = <<>> THEN <<r>>
    ELSE IF Head(sorted).ros_score >= r.ros_score
    THEN <<Head(sorted)>> \o insert_desc(Tail(sorted), r)
    ELSE <<r>> \o sorted

RECURSIVE sort_desc_from(_, _)
sort_desc_from(results, sorted) ==
    IF results = <<>> THEN sorted
    ELSE sort_desc_from(Tail(results), insert_desc(sorted, Head(results)))

\* sorted without reverse=True
RECURSIVE insert_asc(_, _)
insert_asc(sorted, r) ==
    IF sorted = <<>> THEN <<r>>
    ELSE IF Head(sorted).ros_score <= r.ros_score
    THEN <<Head(sorted)>> \o insert_asc(Tail(sorted), r)
    ELSE <<r>> \o sorted

RECURSIVE sort_asc_from(_, _)
sort_asc_from(results, sorted) ==
    IF results = <<>> THEN sorted
    ELSE sort_asc_from(Tail(results), insert_asc(sorted, Head(results)))

sort_by_ros_score_asc(results) == sort_asc_from(results, <<>>)

sort_by_ros_score_desc(results) == sort_desc_from(results, <<>>)

(***************************************************************************)
(* get_ros_rankings: the list it returns.                                  *)
(***************************************************************************)
ros_result(p) ==
    [ player |-> p,
      ros_points |-> calculate_ros_score(p),
      ros_score |-> calculate_ros_score(p),
      season_points |-> p.season_points,
      week_projection |-> p.week_projection,
      matchup |-> p.matchup,
      tier |-> "" ]

get_ros_rankings(pool, position) ==
    LET players == get_players_by_position(pool, position)
        results == [ i \in DOMAIN players |-> ros_result(players[i]) ]
        sorted == sort_by_ros_score_desc(results)
        total == Len(sorted)
    IN  [ idx \in DOMAIN sorted |->
            [ sorted[idx] EXCEPT !.tier = tier_for_rank(idx - 1, total) ] ]

(***************************************************************************)
(* _build_player_index: {p.id: p for p in PLAYER_POOL}, a later player     *)
(* of the same id replacing an earlier one.                                *)
(***************************************************************************)
build_player_index(pool) ==
    [ id \in { pool[k].id : k \in DOMAIN pool } |->
        pool[ CHOOSE k \in DOMAIN pool :
                /\ pool[k].id = id
                /\ \A j \in DOMAIN pool : pool[j].id = id => j <= k ] ]

(***************************************************************************)
(* analyze_trade                                                           *)
(***************************************************************************)
\* the sum given up at the first id that is not in the index
RECURSIVE sum_scores_until_unknown(_, _)
sum_scores_until_unknown(index, ids) ==
    IF ids = <<>> THEN 0
    ELSE IF Head(ids) \in DOMAIN index
    THEN calculate_ros_score(index[Head(ids)])
         + sum_scores_until_unknown(index, Tail(ids))
    ELSE 0

RECURSIVE sum_scores(_, _)
sum_scores(index, ids) ==
    IF ids = <<>> THEN 0
    ELSE (IF Head(ids) \in DOMAIN index
          THEN calculate_ros_score(index[Head(ids)])
          ELSE 0)
         + sum_scores(index, Tail(ids))

trade_total(index, ids) == Round2(sum_scores(index, ids), 1)

\* abs() forgotten
trade_verdict_no_abs(delta_a) ==
    IF delta_a < 500 THEN "Very even trade"
    ELSE IF delta_a > 0 THEN "Good for Team A"
    ELSE "Good for Team B"

trade_verdict(delta_a) ==
    IF Abs(delta_a) < 500 THEN "Very even trade"
    ELSE IF delta_a > 0 THEN "Good for Team A"
    ELSE "Good for Team B"

analyze_trade(pool, team_a_ids, team_b_ids) ==
    LET index == build_player_index(pool)
        team_a_total == trade_total(index, team_a_ids)
        team_b_total == trade_total(index, team_b_ids)
        delta_a == Round2(team_b_total - team_a_total, 1)
    IN  [ op |-> "analyze_trade",
          team_a_total |-> team_a_total,
          team_b_total |-> team_b_total,
          delta_a |-> delta_a,
          verdict |-> trade_verdict(delta_a) ]

(***************************************************************************)
(* The state machine.  phase: "boot" while services.py is being imported,  *)
(* "ready" once PLAYER_POOL is bound, "crashed" when the import raised.    *)
(***************************************************************************)
NoRequest == [ op |-> "none" ]
NoResponse == [ op |-> "none" ]

Positions == { "", "all", "QB", "rb", "WR", "K" }

Init ==
    /\ phase = "boot"
    /\ fetch_kind = "none"
    /\ espn_players = <<>>
    /\ PLAYER_POOL = <<>>
    /\ request = NoRequest
    /\ response = NoResponse

TradeIds == { "p1", "p3", "1" }

IdLists == UNION { [1..n -> TradeIds] : n \in 0..MaxIds }

\* services.py line 352, run once at import
InitPlayerPool ==
    /\ phase = "boot"
    /\ \E http \in HttpOutcomes, matchups \in MatchupOutcomes :
         LET loaded == load_players_from_espn(http, matchups)
         IN  /\ fetch_kind' = http.kind
             /\ IF loaded.raised
                THEN /\ phase' = "crashed"
                     /\ UNCHANGED <<espn_players, PLAYER_POOL>>
                ELSE /\ phase' = "ready"
                     /\ espn_players' = loaded.players
                     /\ PLAYER_POOL' = init_player_pool(loaded.players)
    /\ UNCHANGED <<request, response>>

\* GET /players
GetPlayerPool ==
    /\ phase = "ready"
    /\ request = NoRequest
    /\ \E position \in Positions :
         /\ request' = [ op |-> "get_player_pool", position |-> position ]
         /\ response' =
                [ op |-> "get_player_pool",
                  players |-> get_players_by_position(PLAYER_POOL, position) ]
    /\ UNCHANGED <<phase, fetch_kind, espn_players, PLAYER_POOL>>

\* players.sort(...) on the list get_players_by_position returned, which is
\* PLAYER_POOL itself when there is no position filter
GetRosRankingsSortInPlace ==
    /\ phase = "ready"
    /\ request = NoRequest
    /\ \E position \in Positions :
         /\ request' = [ op |-> "get_ros_rankings", position |-> position ]
         /\ response' =
                [ op |-> "get_ros_rankings",
                  results |-> get_ros_rankings(PLAYER_POOL, position) ]
         /\ PLAYER_POOL' =
                IF position = "" \/ Upper(position) = "ALL"
                THEN [ i \in DOMAIN PLAYER_POOL |->
                         get_ros_rankings(PLAYER_POOL, position)[i].player ]
                ELSE PLAYER_POOL
    /\ UNCHANGED <<phase, fetch_kind, espn_players>>

\* GET /rankings/ros
GetRosRankings ==
    /\ phase = "ready"
    /\ request = NoRequest
    /\ \E position \in Positions :
         /\ request' = [ op |-> "get_ros_rankings", position |-> position ]
         /\ response' =
                [ op |-> "get_ros_rankings",
                  results |-> get_ros_rankings(PLAYER_POOL, position) ]
    /\ UNCHANGED <<phase, fetch_kind, espn_players, PLAYER_POOL>>

\* POST /trade/analyze
AnalyzeTrade ==
    /\ phase = "ready"
    /\ request = NoRequest
    /\ \E team_a_ids \in IdLists, team_b_ids \in IdLists :
         /\ request' = [ op |-> "analyze_trade", team_a_ids |-> team_a_ids,
                         team_b_ids |-> team_b_ids ]
         /\ response' = analyze_trade(PLAYER_POOL, team_a_ids, team_b_ids)
    /\ UNCHANGED <<phase, fetch_kind, espn_players, PLAYER_POOL>>

\* the route in main.py returns the result and the request is over
Reply ==
    /\ phase = "ready"
    /\ request # NoRequest
    /\ request' = NoRequest
    /\ response' = NoResponse
    /\ UNCHANGED <<phase, fetch_kind, espn_players, PLAYER_POOL>>

Next ==
    \/ InitPlayerPool
    \/ GetPlayerPool
    \/ GetRosRankings
    \/ AnalyzeTrade
    \/ Reply

Spec == Init /\ [][Next]_vars

(***************************************************************************)
(* calculate_ros_score on its own: the service is up on the fallback pool  *)
(* and the function is applied to one Player after another.                *)
(***************************************************************************)
PlayerInputs ==
    { [ Player("x", "X", "KC", "QB", fppg, usage, sos, remaining_games)
          EXCEPT !.season_points = season_points,
                 !.projected_season = projected_season ] :
        fppg \in { 0, 457, 1850 }, usage \in { 0, 30, 50, 100 },
        sos \in { 0, 50, 100, 800 }, remaining_games \in { -1, 0, 7 },
        season_points \in { 0, 10000, 40000 },
        projected_season \in { 0, 30000 } }

InitFallback ==
    /\ phase = "ready"
    /\ fetch_kind = "exception"
    /\ espn_players = <<>>
    /\ PLAYER_POOL = DEFAULT_PLAYERS
    /\ request = NoRequest
    /\ response = NoResponse

CalculateRosScore ==
    /\ phase = "ready"
    /\ request = NoRequest
    /\ \E player \in PlayerInputs :
         /\ request' = [ op |-> "calculate_ros_score", player |-> player ]
         /\ response' = [ op |-> "calculate_ros_score",
                          score |-> calculate_ros_score(player) ]
    /\ UNCHANGED <<phase, fetch_kind, espn_players, PLAYER_POOL>>

NextScore ==
    \/ CalculateRosScore
    \/ Reply

SpecScore == InitFallback /\ [][NextScore]_vars

(***************************************************************************)
(* tier_for_rank on its own, for every index of every total up to          *)
(* MaxTotal, and for total 0.                                              *)
(***************************************************************************)
TierForRank ==
    /\ phase = "ready"
    /\ request = NoRequest
    /\ \E total \in 0..MaxTotal :
         \E index \in 0..(Max(total, 1) - 1) :
           /\ request' = [ op |-> "tier_for_rank", index |-> index,
                           total |-> total ]
           /\ response' = [ op |-> "tier_for_rank",
                            tier |-> tier_for_rank(index, total) ]
    /\ UNCHANGED <<phase, fetch_kind, espn_players, PLAYER_POOL>>

NextTier ==
    \/ TierForRank
    \/ GetRosRankings
    \/ Reply

SpecTier == InitFallback /\ [][NextTier]_vars

(***************************************************************************)
(* The ownership test of _load_players_from_espn on its own, for records   *)
(* that normalize and have a team, under every configured value of         *)
(* ESPN_MIN_PERCENT_OWNED (thousandths of a percent; the default is 0).    *)
(***************************************************************************)
OwnershipInputs ==
    { [ shape |-> "dict", id |-> 10, fullName |-> "Travis Kelce",
        defaultPositionId |-> 4, proTeamId |-> 12,
        ownership |-> [ percentOwned |-> po, percentStarted |-> 60 ] ] :
        po \in { -1000, 0, 1, 5000, 45678, 50000, 50001, 91234, 100000 } }
    \cup { [ shape |-> "dict", id |-> 10, fullName |-> "Travis Kelce",
             defaultPositionId |-> 4, proTeamId |-> 12 ],
           [ shape |-> "dict", id |-> 10, fullName |-> "Travis Kelce",
             defaultPositionId |-> 4, proTeamId |-> 12,
             ownership |-> [ percentStarted |-> 60 ] ] }

MinPercentOwnedSettings ==
    { ESPN_MIN_PERCENT_OWNED, 1, 5000, 45678, 50000, 50001, 75000, 91234,
      100000, 100001 }

FilterByOwnership ==
    /\ phase = "ready"
    /\ request = NoRequest
    /\ \E raw \in OwnershipInputs,
          min_percent_owned \in MinPercentOwnedSettings :
         /\ extract_basic_info(raw).some
         /\ extract_basic_info(raw).player.team # "FA"
         /\ request' = [ op |-> "filter_by_ownership", raw |-> raw,
                         min_percent_owned |-> min_percent_owned ]
         /\ response' = [ op |-> "filter_by_ownership",
                          excluded |->
                              excluded_by_ownership(raw, min_percent_owned) ]
    /\ UNCHANGED <<phase, fetch_kind, espn_players, PLAYER_POOL>>

NextOwnership ==
    \/ FilterByOwnership
    \/ Reply

SpecOwnership == InitFallback /\ [][NextOwnership]_vars

(***************************************************************************)
(* Properties.                                                             *)
(***************************************************************************)
PoolIds(pool) == { pool[k].id : k \in DOMAIN pool }

\* C1: once _init_player_pool has returned the pool is not empty; it is
\* DEFAULT_PLAYERS when the fetch gave no list or the adapter kept no record,
\* the adapter's kept records otherwise; list_players(None) returns the pool.
PoolLoaderFallback ==
    phase = "ready" =>
        /\ PLAYER_POOL # <<>>
        /\ (fetch_kind # "list" => espn_players = <<>>)
        /\ (espn_players = <<>> => PLAYER_POOL = DEFAULT_PLAYERS)
        /\ (espn_players # <<>> => PLAYER_POOL = espn_players)
        /\ (request.op = "get_player_pool" /\ request.position = ""
              => response.players = PLAYER_POOL)

FallbackServed ==
    /\ phase = "ready"
    /\ fetch_kind = "exception"
    /\ request.op = "get_player_pool"
    /\ request.position = ""
    /\ response.players = DEFAULT_PLAYERS

\* C2: the rankings are ordered non-increasing by ros_score and are a
\* permutation of the filtered pool in which players of equal score keep
\* the order they have in the pool.
IsStableRanking(results, players) ==
    /\ Len(results) = Len(players)
    /\ \A i \in DOMAIN results : \A j \in DOMAIN results :
           i < j => results[i].ros_score >= results[j].ros_score
    /\ \E f \in [DOMAIN results -> DOMAIN players] :
           /\ \A i \in DOMAIN results : \A j \in DOMAIN results :
                  i # j => f[i] # f[j]
           /\ \A i \in DOMAIN results :
                  /\ results[i].player = players[f[i]]
                  /\ results[i].ros_score = calculate_ros_score(players[f[i]])
           /\ \A i \in DOMAIN results : \A j \in DOMAIN results :
                  (i < j /\ results[i].ros_score = results[j].ros_score)
                      => f[i] < f[j]

RankingsSortedPermutation ==
    request.op = "get_ros_rankings" =>
        IsStableRanking(response.results,
                        get_players_by_position(PLAYER_POOL, request.position))

RankingReordered ==
    /\ request.op = "get_ros_rankings"
    /\ Len(response.results) >= 2
    /\ response.results[1].player # PLAYER_POOL[1]
    /\ response.results[1].ros_score > response.results[2].ros_score

\* C3: each side's total is the sum of calculate_ros_score over the ids of
\* that side that are in the pool (the player the index holds for the id);
\* ids that are not in the pool add nothing and a side with none has total 0.
RECURSIVE SumPresent(_, _)
SumPresent(pool, ids) ==
    IF ids = <<>> THEN 0
    ELSE LET here == { k \in DOMAIN pool : pool[k].id = Head(ids) }
         IN  (IF here = {} THEN 0
              ELSE calculate_ros_score(
                       pool[CHOOSE k \in here : \A j \in here : j <= k]))
             + SumPresent(pool, Tail(ids))

Resolvable(pool, ids) == { k \in DOMAIN ids : ids[k] \in PoolIds(pool) }

TradeTotalsSkipUnknown ==
    request.op = "analyze_trade" =>
        /\ response.op = "analyze_trade"
        /\ response.team_a_total = SumPresent(PLAYER_POOL, request.team_a_ids)
        /\ response.team_b_total = SumPresent(PLAYER_POOL, request.team_b_ids)
        /\ (Resolvable(PLAYER_POOL, request.team_a_ids) = {}
              => response.team_a_total = 0)
        /\ (Resolvable(PLAYER_POOL, request.team_b_ids) = {}
              => response.team_b_total = 0)

UnknownIdSkipped ==
    /\ request.op = "analyze_trade"
    /\ PLAYER_POOL = DEFAULT_PLAYERS
    /\ request.team_a_ids = << "1" >>
    /\ request.team_b_ids = << "1", "p1" >>
    /\ response.team_a_total = 0
    /\ response.team_b_total = 12432

\* C4: analyze_trade(B, A) has the totals of analyze_trade(A, B) exchanged
\* and delta_a negated; the verdicts for Team A and Team B are exchanged and
\* "Very even trade" is kept.
SwapVerdict(v) ==
    CASE v = "Good for Team A" -> "Good for Team B"
      [] v = "Good for Team B" -> "Good for Team A"
      [] OTHER -> v

TradeSwapSymmetry ==
    request.op = "analyze_trade" =>
        LET swapped == analyze_trade(PLAYER_POOL, request.team_b_ids,
                                     request.team_a_ids)
        IN  /\ swapped.team_a_total = response.team_b_total
            /\ swapped.team_b_total = response.team_a_total
            /\ swapped.delta_a = 0 - response.delta_a
            /\ swapped.verdict = SwapVerdict(response.verdict)

LopsidedTrade ==
    /\ request.op = "analyze_trade"
    /\ response.team_a_total > 0
    /\ response.delta_a <= -500
    /\ response.verdict = "Good for Team B"

\* C5 as stated: for a Player whose numeric inputs are all non-negative,
\* calculate_ros_score is >= 0.
NonNegativeInputs(p) ==
    /\ p.fppg >= 0 /\ p.usage >= 0 /\ p.sos >= 0 /\ p.remaining_games >= 0
    /\ p.season_points >= 0 /\ p.projected_season >= 0

ScoreNonNegative ==
    (request.op = "calculate_ros_score" /\ NonNegativeInputs(request.player))
        => response.score >= 0

\* C5: for a Player whose numeric inputs are all non-negative and whose sos
\* is on the 0-1 scale (at most 1.0), calculate_ros_score is >= 0.
ScoreNonNegativeUnitSos ==
    (/\ request.op = "calculate_ros_score"
     /\ NonNegativeInputs(request.player)
     /\ request.player.sos <= 100)
        => response.score >= 0

ScoredOverProjection ==
    /\ request.op = "calculate_ros_score"
    /\ NonNegativeInputs(request.player)
    /\ request.player.sos = 100
    /\ request.player.season_points > request.player.projected_season
    /\ request.player.projected_season > 0
    /\ response.score > 0

\* C6: in a ranking of any size a later position never has a better tier
\* than an earlier one, in the order S > A > B > C > D.
TierRank(t) ==
    CASE t = "S" -> 0 [] t = "A" -> 1 [] t = "B" -> 2 [] t = "C" -> 3
      [] t = "D" -> 4

TierMonotonic ==
    /\ request.op = "tier_for_rank" =>
           \A j \in (request.index + 1)..(request.total - 1) :
               TierRank(response.tier)
                   <= TierRank(tier_for_rank(j, request.total))
    /\ request.op = "get_ros_rankings" =>
           \A i \in DOMAIN response.results :
               \A j \in DOMAIN response.results :
                   i < j => TierRank(response.results[i].tier)
                                <= TierRank(response.results[j].tier)

TierBoundary ==
    /\ request.op = "tier_for_rank"
    /\ request.total = 20
    /\ request.index = 5
    /\ response.tier = "A"
    /\ tier_for_rank(6, 20) = "B"

\* C7: no request changes PLAYER_POOL once it is bound.
PoolReadOnly == [][phase = "ready" => PLAYER_POOL' = PLAYER_POOL]_vars

RankedWithoutTouchingPool ==
    /\ phase = "ready"
    /\ request.op = "get_ros_rankings"
    /\ request.position = ""
    /\ response.results[1].player # PLAYER_POOL[1]
    /\ PLAYER_POOL = init_player_pool(espn_players)

\* C8 as stated: every pool player has a non-empty id, a non-empty name and
\* a position in {QB, RB, WR, TE}.
FixedPositions == { "QB", "RB", "WR", "TE" }

PoolPlayersCanonical ==
    \A k \in DOMAIN PLAYER_POOL :
        /\ PLAYER_POOL[k].id # ""
        /\ PLAYER_POOL[k].name # ""
        /\ PLAYER_POOL[k].position \in FixedPositions

\* C8: every pool player has a non-empty id, a non-empty name and a position
\* in {QB, RB, WR, TE, K, D/ST, FLEX}: kicker and defense codes are labelled
\* K and D/ST, unknown and missing codes FLEX, and the records are kept.
PoolPlayersLabelled ==
    \A k \in DOMAIN PLAYER_POOL :
        /\ PLAYER_POOL[k].id # ""
        /\ PLAYER_POOL[k].name # ""
        /\ PLAYER_POOL[k].position \in FixedPositions \cup { "K", "D/ST", "FLEX" }

KickerAndFlexInPool ==
    /\ phase = "ready"
    /\ \E k \in DOMAIN PLAYER_POOL : PLAYER_POOL[k].position = "K"
    /\ \E k \in DOMAIN PLAYER_POOL :
           /\ PLAYER_POOL[k].position = "FLEX"
           /\ PLAYER_POOL[k].id = "Patrick Mahomes"

\* C9: no two entries of PLAYER_POOL have the same id, so the index of
\* analyze_trade has one entry per pool player.
PoolIdsUnique ==
    /\ \A i \in DOMAIN PLAYER_POOL : \A j \in DOMAIN PLAYER_POOL :
           i # j => PLAYER_POOL[i].id # PLAYER_POOL[j].id
    /\ Cardinality(DOMAIN build_player_index(PLAYER_POOL)) = Len(PLAYER_POOL)

\* C10: a record that fails to normalize is skipped and no exception from
\* normalizing a record leaves _init_player_pool: the import never fails.
NoExceptionPastPoolLoader == phase # "crashed"

\* the ownership signal of a raw record: its percentOwned, 0 when there is none
OwnershipSignal(raw) ==
    IF Has(raw, "ownership") /\ Has(raw.ownership, "percentOwned")
    THEN raw.ownership.percentOwned
    ELSE 0

\* C11 as stated: a normalized record is excluded on ownership grounds
\* exactly when its ownership signal is below the configured minimum, and
\* under the default minimum (0.0) no record is excluded for its ownership.
ExcludedIffBelowMinimum ==
    request.op = "filter_by_ownership" =>
        /\ response.excluded
              <=> OwnershipSignal(request.raw) < request.min_percent_owned
        /\ (request.min_percent_owned = ESPN_MIN_PERCENT_OWNED
              => ~response.excluded)

\* C11: a normalized record is excluded on ownership grounds exactly when
\* its ownership signal is not positive or is below the configured minimum;
\* under the default minimum (0.0) exactly the records whose signal is not
\* positive are excluded.
ExcludedIffNotPositiveOrBelowMinimum ==
    request.op = "filter_by_ownership" =>
        /\ response.excluded
              <=> (\/ OwnershipSignal(request.raw) <= 0
                   \/ OwnershipSignal(request.raw) < request.min_percent_owned)
        /\ (request.min_percent_owned = ESPN_MIN_PERCENT_OWNED
              => (response.excluded <=> OwnershipSignal(request.raw) <= 0))

UnownedExcludedAtDefault ==
    /\ request.op = "filter_by_ownership"
    /\ request.min_percent_owned = ESPN_MIN_PERCENT_OWNED
    /\ Has(request.raw, "ownership")
    /\ OwnershipSignal(request.raw) = 0
    /\ response.excluded

====
